---------------------------- MODULE Spec2Model ----------------------------
(***************************************************************************)
(* Model of diagram.py: the column classifier (detect_month_cols,          *)
(* select_columns) and the flow aggregator (plot_sankey_d3).               *)
(*                                                                         *)
(* Numbers are fixed-point: one unit is 0.0001, so 10 units are 0.001 and  *)
(* round(x, 3) rounds to a multiple of 10 units.  The numeric cells that   *)
(* tables are drawn from are even, so that no total is an exact tie of     *)
(* round(), whose outcome on a float depends on its binary expansion.      *)
(* Source and target cells are text labels (no missing cells).             *)
(***************************************************************************)
EXTENDS Integers, Sequences, FiniteSets, TLC

VARIABLES data, sel, out, prev, columns, picked

vars == <<data, sel, out, prev, columns, picked>>

(***************************************************************************)
(* Bounds                                                                  *)
(***************************************************************************)
MaxRows == 2

MaxCols == 3

(***************************************************************************)
(* Generic helpers                                                         *)
(***************************************************************************)
Range(s) == {s[i] : i \in DOMAIN s}

RECURSIVE SeqSum(_)
SeqSum(s) == IF s = <<>> THEN 0 ELSE Head(s) + SeqSum(Tail(s))

(***************************************************************************)
(* The uploaded table of the aggregator: three columns, rows in order.     *)
(***************************************************************************)
TableColumns == {"Source", "Target", "Apr-25"}

Num(n) == [kind |-> "num", val |-> n]

Text == [kind |-> "text", val |-> 0]

ValueCells == {Text, Num(-5), Num(0), Num(4), Num(30)}

Row(s, t, v) == ("Source" :> s) @@ ("Target" :> t) @@ ("Apr-25" :> v)

\* the source and target cells of a row: a flow, the flow back, a flow that
\* continues the first, a self-loop, and a flow back from the third node
RowEnds == {<<"A", "B">>, <<"B", "A">>, <<"B", "C">>, <<"A", "A">>, <<"C", "B">>}

Rows == {Row(e[1], e[2], v) : e \in RowEnds, v \in ValueCells}

ExampleTable ==
    << Row("A", "B", Num(1000000)), Row("B", "C", Num(500000)),
       Row("A", "A", Num(300000)), Row("C", "B", Num(-50000)) >>

Tables == UNION {[1..n -> Rows] : n \in 0..MaxRows} \cup {ExampleTable}

Selection(s, t, v) == [source_col |-> s, target_col |-> t, value_col |-> v]

\* The column identifiers a caller may pass: the table's own, one column
\* given twice, and one identifier at a time that names no column of the
\* table ("Src", "Tgt", "May-25").
Selections ==
    { Selection("Source", "Target", "Apr-25"), Selection("Source", "Source", "Apr-25"),
      Selection("Src", "Target", "Apr-25"), Selection("Source", "Tgt", "Apr-25"),
      Selection("Source", "Target", "May-25") }

(***************************************************************************)
(* plot_sankey_d3                                                          *)
(***************************************************************************)
\* pd.to_numeric(cell, errors="coerce") followed by fillna(0)
to_numeric(cell) == IF cell.kind = "num" THEN cell.val ELSE 0

\* df[value_col] = pd.to_numeric(df[value_col], errors="coerce").fillna(0)
Coerced(df, value_col) ==
    [i \in DOMAIN df |-> [df[i] EXCEPT ![value_col] = to_numeric(df[i][value_col])]]

\* df = df[df[value_col] > 0]
FilterPositive_mut(df, value_col) == SelectSeq(df, LAMBDA r : r[value_col] >= 0)

FilterPositive(df, value_col) == SelectSeq(df, LAMBDA r : r[value_col] > 0)

\* df = df[df[source_col] != df[target_col]]
FilterSelfLoops_mut(df, source_col, target_col) == df

FilterSelfLoops(df, source_col, target_col) ==
    SelectSeq(df, LAMBDA r : r[source_col] # r[target_col])

\* set(df[source_col]).union(set(df[target_col]))
NodeSet(df, source_col, target_col) ==
    {df[i][source_col] : i \in DOMAIN df} \cup {df[i][target_col] : i \in DOMAIN df}

\* list(set): every enumeration order of the set is a possible node list
NodeOrders(S) ==
    {p \in [1..Cardinality(S) -> S] : \A i, j \in 1..Cardinality(S) : i # j => p[i] # p[j]}

\* node_index = {n: i for i, n in enumerate(nodes)}: 0-based; a later
\* occurrence of a name overwrites an earlier one
node_index(nodes) ==
    [n \in Range(nodes) |->
        (CHOOSE i \in DOMAIN nodes :
            nodes[i] = n /\ \A j \in DOMAIN nodes : nodes[j] = n => j <= i) - 1]

\* the loop that adds every row's value to its source and to its target
RECURSIVE node_values_mut(_, _, _, _, _)
node_values_mut(df, nodes, source_col, target_col, value_col) ==
    IF df = <<>> THEN [n \in Range(nodes) |-> 0]
    ELSE LET row == df[Len(df)]
             acc == node_values_mut(SubSeq(df, 1, Len(df) - 1), nodes,
                                    source_col, target_col, value_col)
         IN  [acc EXCEPT ![row[source_col]] = @ + row[value_col]]

RECURSIVE node_values(_, _, _, _, _)
node_values(df, nodes, source_col, target_col, value_col) ==
    IF df = <<>> THEN [n \in Range(nodes) |-> 0]
    ELSE LET row == df[Len(df)]
             acc == node_values(SubSeq(df, 1, Len(df) - 1), nodes,
                                source_col, target_col, value_col)
             a1  == [acc EXCEPT ![row[source_col]] = @ + row[value_col]]
         IN  [a1 EXCEPT ![row[target_col]] = @ + row[value_col]]

\* round(x, 3): to the nearest multiple of 10 units, ties to even
round3_mut(x) == x

round3(x) ==
    LET q == x \div 10
        r == x % 10
    IN  IF r < 5 THEN 10 * q
        ELSE IF r > 5 THEN 10 * (q + 1)
        ELSE IF q % 2 = 0 THEN 10 * q ELSE 10 * (q + 1)

\* links.append({"source": ..., "target": ..., "value": float(row[value_col])})
links_mut(df, nodes, source_col, target_col, value_col) ==
    LET idx == node_index(nodes)
    IN  [i \in DOMAIN df |->
            [source |-> idx[df[i][target_col]],
             target |-> idx[df[i][source_col]],
             value  |-> df[i][value_col]]]

links(df, nodes, source_col, target_col, value_col) ==
    LET idx == node_index(nodes)
    IN  [i \in DOMAIN df |->
            [source |-> idx[df[i][source_col]],
             target |-> idx[df[i][target_col]],
             value  |-> df[i][value_col]]]

\* sankey_data = {"nodes": [{"name": n, "value": round(node_values[n], 3)}], "links": links}
sankey_data(df, nodes, source_col, target_col, value_col) ==
    LET totals == node_values(df, nodes, source_col, target_col, value_col)
    IN  [nodes |-> [i \in DOMAIN nodes |->
                      [name |-> nodes[i], value |-> round3(totals[nodes[i]])]],
         links |-> links(df, nodes, source_col, target_col, value_col)]

\* What one call leaves behind: status "error" (st.error and return),
\* "exception" (KeyError raised by df[source_col] or df[target_col]),
\* "warning" (st.warning and return) or "rendered" (components.html is
\* handed the dataset); dataset holds the sankey_data when one was built.
Outcome(status, dataset) == [status |-> status, dataset |-> dataset]

\* the early return taken when df.empty
EmptyResult_mut == Outcome("rendered", << [nodes |-> <<>>, links |-> <<>>] >>)

EmptyResult == Outcome("warning", <<>>)

\* the frame after both filters (lines 214-217), for existing columns
Filtered(df0, source_col, target_col, value_col) ==
    FilterSelfLoops(FilterPositive(Coerced(df0, value_col), value_col),
                    source_col, target_col)

\* the node lists list(set(...)) can produce for this call
PlotNodeOrders(df0, s) ==
    IF s.value_col \in TableColumns /\ s.source_col \in TableColumns
       /\ s.target_col \in TableColumns
    THEN NodeOrders(NodeSet(Filtered(df0, s.source_col, s.target_col, s.value_col),
                            s.source_col, s.target_col))
    ELSE {<<>>}

plot_sankey_d3(df0, source_col, target_col, value_col, nodes) ==
    IF value_col \notin TableColumns THEN Outcome("error", <<>>)
    ELSE IF source_col \notin TableColumns \/ target_col \notin TableColumns
         THEN Outcome("exception", <<>>)
    ELSE LET df == Filtered(df0, source_col, target_col, value_col)
         IN  IF df = <<>> THEN EmptyResult
             ELSE Outcome("rendered",
                          << sankey_data(df, nodes, source_col, target_col, value_col) >>)

\* df = df.copy(): the caller's table is not the frame the call rewrites
TableAfterPlot_mut(df0, value_col) ==
    IF value_col \in TableColumns
    THEN [i \in DOMAIN df0 |-> [df0[i] EXCEPT ![value_col] = Num(to_numeric(df0[i][value_col]))]]
    ELSE df0

TableAfterPlot(df0, value_col) == df0

(***************************************************************************)
(* Column labels.  A label is its text, one character per element.  The    *)
(* labels a table is drawn from are ISO dates (with or without a time of   *)
(* day, as str() gives for a spreadsheet's date header), fiscal-year       *)
(* labels in either case, and plain names; to_datetime is modelled on      *)
(* these forms.                                                            *)
(***************************************************************************)
ApriIso == <<"2", "0", "2", "5", "-", "0", "4", "-", "0", "1">>

ApriStamp == ApriIso \o <<" ", "0", "0", ":", "0", "0", ":", "0", "0">>

MayIso == <<"2", "0", "2", "5", "-", "0", "5", "-", "0", "1">>

FY26 == <<"F", "Y", "2", "6">>

fy27 == <<"f", "y", "2", "7">>

SourceLabel == <<"S", "o", "u", "r", "c", "e">>

TargetLabel == <<"T", "a", "r", "g", "e", "t">>

PlantLabel == <<"P", "l", "a", "n", "t">>

Labels == {ApriIso, ApriStamp, MayIso, FY26, fy27, SourceLabel, TargetLabel, PlantLabel}

\* the column lists of a table: labels in order, no label twice
ColumnLists ==
    UNION {{c \in [1..n -> Labels] : \A i, j \in 1..n : i # j => c[i] # c[j]} :
             n \in 0..MaxCols}

DigitChars == <<"0", "1", "2", "3", "4", "5", "6", "7", "8", "9">>

IsDigit(c) == \E i \in DOMAIN DigitChars : DigitChars[i] = c

DigitVal(c) == (CHOOSE i \in DOMAIN DigitChars : DigitChars[i] = c) - 1

AllDigits(s) == \A i \in DOMAIN s : IsDigit(s[i])

RECURSIVE Number(_)
Number(s) == IF s = <<>> THEN 0 ELSE 10 * Number(SubSeq(s, 1, Len(s) - 1)) + DigitVal(s[Len(s)])

IsLeap(y) == (y % 4 = 0 /\ y % 100 # 0) \/ y % 400 = 0

DaysInMonth(y, m) ==
    IF m = 2 THEN (IF IsLeap(y) THEN 29 ELSE 28)
    ELSE IF m \in {4, 6, 9, 11} THEN 30 ELSE 31

\* YYYY-MM-DD naming a calendar day
IsIsoDate(s) ==
    /\ Len(s) = 10
    /\ AllDigits(SubSeq(s, 1, 4)) /\ s[5] = "-"
    /\ AllDigits(SubSeq(s, 6, 7)) /\ s[8] = "-"
    /\ AllDigits(SubSeq(s, 9, 10))
    /\ Number(SubSeq(s, 6, 7)) \in 1..12
    /\ Number(SubSeq(s, 9, 10)) \in
          1..DaysInMonth(Number(SubSeq(s, 1, 4)), Number(SubSeq(s, 6, 7)))

\* " HH:MM:SS"
IsTimeOfDay(s) ==
    /\ Len(s) = 9
    /\ s[1] = " " /\ s[4] = ":" /\ s[7] = ":"
    /\ AllDigits(SubSeq(s, 2, 3)) /\ Number(SubSeq(s, 2, 3)) < 24
    /\ AllDigits(SubSeq(s, 5, 6)) /\ Number(SubSeq(s, 5, 6)) < 60
    /\ AllDigits(SubSeq(s, 8, 9)) /\ Number(SubSeq(s, 8, 9)) < 60

\* whether pd.to_datetime(col) returns (TRUE) or raises (FALSE)
ParsesAsDate(col) ==
    \/ IsIsoDate(col)
    \/ Len(col) = 19 /\ IsIsoDate(SubSeq(col, 1, 10)) /\ IsTimeOfDay(SubSeq(col, 11, 19))

\* dt = pd.to_datetime(col), for a label that parses
to_datetime(col) ==
    [year  |-> Number(SubSeq(col, 1, 4)),
     month |-> Number(SubSeq(col, 6, 7)),
     day   |-> Number(SubSeq(col, 9, 10))]

MonthAbbr ==
    << <<"J", "a", "n">>, <<"F", "e", "b">>, <<"M", "a", "r">>, <<"A", "p", "r">>,
       <<"M", "a", "y">>, <<"J", "u", "n">>, <<"J", "u", "l">>, <<"A", "u", "g">>,
       <<"S", "e", "p">>, <<"O", "c", "t">>, <<"N", "o", "v">>, <<"D", "e", "c">> >>

\* dt.strftime('%b-%y')
strftime(dt) ==
    MonthAbbr[dt.month] \o <<"-">>
        \o <<DigitChars[((dt.year % 100) \div 10) + 1], DigitChars[(dt.year % 10) + 1]>>

LowerChars ==
    <<"a", "b", "c", "d", "e", "f", "g", "h", "i", "j", "k", "l", "m",
      "n", "o", "p", "q", "r", "s", "t", "u", "v", "w", "x", "y", "z">>

UpperChars ==
    <<"A", "B", "C", "D", "E", "F", "G", "H", "I", "J", "K", "L", "M",
      "N", "O", "P", "Q", "R", "S", "T", "U", "V", "W", "X", "Y", "Z">>

\* col_str.upper()
upper(s) ==
    [i \in DOMAIN s |->
        IF \E k \in DOMAIN LowerChars : LowerChars[k] = s[i]
        THEN UpperChars[CHOOSE k \in DOMAIN LowerChars : LowerChars[k] = s[i]]
        ELSE s[i]]

startswith(s, prefix) == Len(s) >= Len(prefix) /\ SubSeq(s, 1, Len(prefix)) = prefix

\* A dict is the list of its <<key, value>> items in insertion order.
DictKeys(d) == [i \in DOMAIN d |-> d[i][1]]

DictValues(d) == {d[i][2] : i \in DOMAIN d}

HasKey(d, k) == \E i \in DOMAIN d : d[i][1] = k

DictGet(d, k) == d[CHOOSE i \in DOMAIN d : d[i][1] = k][2]

\* d[k] = v: a new key goes last, an existing key keeps its place and takes v
DictSet_mut(d, k, v) == IF HasKey(d, k) THEN d ELSE Append(d, <<k, v>>)

DictSet(d, k, v) ==
    IF HasKey(d, k)
    THEN [i \in DOMAIN d |-> IF d[i][1] = k THEN <<k, v>> ELSE d[i]]
    ELSE Append(d, <<k, v>>)

\* the loop of detect_month_cols over df.columns
RECURSIVE display_to_real(_)
display_to_real(cols) ==
    IF cols = <<>> THEN <<>>
    ELSE LET d   == display_to_real(SubSeq(cols, 1, Len(cols) - 1))
             col == cols[Len(cols)]
         IN  IF ParsesAsDate(col) THEN DictSet(d, strftime(to_datetime(col)), col)
             ELSE IF startswith(upper(col), <<"F", "Y">>) THEN DictSet(d, col, col)
             ELSE d

detect_month_cols(cols) ==
    [display_to_real |-> display_to_real(cols),
     display_cols    |-> DictKeys(display_to_real(cols))]

\* other_cols = [str(c) for c in df.columns if str(c) not in month_map.values()]
other_cols(cols, month_map) == SelectSeq(cols, LAMBDA c : c \notin DictValues(month_map))

\* None, the value of a selectbox without options
None == <<>>

\* what st.sidebar.selectbox(label, options) can return
selectbox(options) == IF options = <<>> THEN {None} ELSE Range(options)

\* the selectbox raises when its options are not empty and index is not one of theirs
IndexRaises(options, index) == options # <<>> /\ index >= Len(options)

Picked(status, mm, tc, oc, s, t, dv, v) ==
    [status |-> status, month_map |-> mm, time_cols |-> tc, other_cols |-> oc,
     source_col |-> s, target_col |-> t, display_value_col |-> dv, value_col |-> v]

NoPick == Picked("none", <<>>, <<>>, <<>>, None, None, None, None)

\* select_columns(df) for the choices s, t and dv made in the three boxes;
\* status "raised" when the target box rejects its index or month_map has
\* no key None
select_columns(cols, s, t, dv) ==
    LET det == detect_month_cols(cols)
        mm  == det.display_to_real
        tc  == det.display_cols
        oc  == other_cols(cols, mm)
    IN  IF TargetLabel \notin Range(oc) /\ IndexRaises(oc, 1)
        THEN Picked("raised", mm, tc, oc, s, None, None, None)
        ELSE IF ~HasKey(mm, dv)
        THEN Picked("raised", mm, tc, oc, s, t, dv, None)
        ELSE Picked("ok", mm, tc, oc, s, t, dv, DictGet(mm, dv))

(***************************************************************************)
(* Actions of the aggregator                                               *)
(***************************************************************************)
NoSel == Selection("", "", "")

\* the caller fixes the three column identifiers for the runs that follow
\* (choosing again leaves the table as it is and starts over from the
\* state a first choice leads to, so only the first choice is an action)
ChooseColumns ==
    /\ sel = NoSel
    /\ \E s \in Selections : sel' = s
    /\ out' = <<>>
    /\ prev' = <<>>
    /\ UNCHANGED <<data, columns, picked>>

\* one run of plot_sankey_d3 on the loaded table; the previous run's
\* outcome is kept for comparison
PlotSankey ==
    /\ sel # NoSel
    /\ \E nodes \in PlotNodeOrders(data, sel) :
         out' = << plot_sankey_d3(data, sel.source_col, sel.target_col,
                                  sel.value_col, nodes) >>
    /\ prev' = out
    /\ data' = TableAfterPlot(data, sel.value_col)
    /\ UNCHANGED <<sel, columns, picked>>

Init ==
    /\ data \in Tables
    /\ sel = NoSel
    /\ out = <<>>
    /\ prev = <<>>
    /\ columns = <<>>
    /\ picked = NoPick

Next == ChooseColumns \/ PlotSankey

Spec == Init /\ [][Next]_vars

(***************************************************************************)
(* The classifier on its own: a table's column list, and select_columns    *)
(* run on it (again on every change of a box).                             *)
(***************************************************************************)
SelectColumns ==
    /\ LET det == detect_month_cols(columns)
           oc  == other_cols(columns, det.display_to_real)
       IN  \E s \in selectbox(oc), t \in selectbox(oc), dv \in selectbox(det.display_cols) :
               picked' = select_columns(columns, s, t, dv)
    /\ UNCHANGED <<columns, data, sel, out, prev>>

InitCols ==
    /\ columns \in ColumnLists
    /\ picked = NoPick
    /\ data = <<>>
    /\ sel = NoSel
    /\ out = <<>>
    /\ prev = <<>>

NextCols == SelectColumns

SpecCols == InitCols /\ [][NextCols]_vars


(***************************************************************************)
(* Vocabulary of the properties, stated on the table and the outcome       *)
(* without the aggregator's own operators.                                 *)
(***************************************************************************)
ValidSel(s) ==
    /\ s.source_col \in TableColumns
    /\ s.target_col \in TableColumns
    /\ s.value_col \in TableColumns

CellPositive(c) == c.kind = "num" /\ c.val > 0

CellValue(c) == IF c.kind = "num" THEN c.val ELSE 0

IsSelfLoop(r) == r[sel.source_col] = r[sel.target_col]

Survives(r) == CellPositive(r[sel.value_col]) /\ ~IsSelfLoop(r)

Survivors == SelectSeq(data, Survives)

HasRun == out # <<>>

Rendered == out # <<>> /\ out[1].status = "rendered"

DS == out[1].dataset[1]

Abs(x) == IF x < 0 THEN -x ELSE x

\* the sum of the surviving rows' values in which node n is the source,
\* plus the sum of those in which it is the target
IncidentSum(n) ==
    SeqSum([i \in DOMAIN Survivors |->
              (IF Survivors[i][sel.source_col] = n
               THEN CellValue(Survivors[i][sel.value_col]) ELSE 0)
            + (IF Survivors[i][sel.target_col] = n
               THEN CellValue(Survivors[i][sel.value_col]) ELSE 0)])

SumTotals(ds) == SeqSum([i \in DOMAIN ds.nodes |-> ds.nodes[i].value])

SumLinks(ds) == SeqSum([i \in DOMAIN ds.links |-> ds.links[i].value])

\* name -> total of a dataset
TotalsOf(ds) ==
    [n \in {ds.nodes[i].name : i \in DOMAIN ds.nodes} |->
        (CHOOSE v \in {ds.nodes[i].value : i \in DOMAIN ds.nodes} :
            \E i \in DOMAIN ds.nodes : ds.nodes[i].name = n /\ ds.nodes[i].value = v)]

\* the links of a dataset with indices resolved to node names; an index
\* outside the node list resolves to no name
NameAt(ds, k) == IF k + 1 \in DOMAIN ds.nodes THEN <<ds.nodes[k + 1].name>> ELSE <<>>

NamedLinks(ds) ==
    [i \in DOMAIN ds.links |->
        [source |-> NameAt(ds, ds.links[i].source),
         target |-> NameAt(ds, ds.links[i].target),
         value  |-> ds.links[i].value]]

(***************************************************************************)
(* Properties of the aggregator                                            *)
(***************************************************************************)

Cleaned == SelectSeq(data, LAMBDA r : CellPositive(r[sel.value_col]))

\* C2: every emitted link has value > 0, and the outcome (its status and its
\* node totals by name) is the one the same call gives on the table with the
\* non-numeric, zero and negative rows removed.
C2_NonPositiveRowsIgnored ==
    (HasRun /\ ValidSel(sel)) =>
        /\ Rendered => \A i \in DOMAIN DS.links : DS.links[i].value > 0
        /\ LET names == IF Rendered THEN [i \in DOMAIN DS.nodes |-> DS.nodes[i].name]
                        ELSE <<>>
               clean == plot_sankey_d3(Cleaned, sel.source_col, sel.target_col,
                                       sel.value_col, names)
           IN  /\ clean.status = out[1].status
               /\ Rendered => TotalsOf(clean.dataset[1]) = TotalsOf(DS)

\* a dataset rendered from a table with a non-numeric row and a surviving row
C2_Witness ==
    /\ Rendered
    /\ \E i \in DOMAIN data : data[i][sel.value_col].kind = "text" /\ ~IsSelfLoop(data[i])

\* C3 (as amended): every node total of the dataset is the sum of the
\* surviving rows' values at that node (as source plus as target) rounded to
\* 3 decimals: a multiple of 0.001 no further than 0.0005 from that sum.
C3_TotalsAreRoundedIncidentSums ==
    Rendered =>
        \A i \in DOMAIN DS.nodes :
            /\ DS.nodes[i].value % 10 = 0
            /\ Abs(DS.nodes[i].value - IncidentSum(DS.nodes[i].name)) <= 5

\* C3 as stated: every node total equals the sum itself.
C3_TotalsAreExactIncidentSums ==
    Rendered =>
        \A i \in DOMAIN DS.nodes : DS.nodes[i].value = IncidentSum(DS.nodes[i].name)

\* the example table: totals A = 100, B = 150, C = 50
C3_Witness ==
    /\ Rendered
    /\ data = ExampleTable
    /\ TotalsOf(DS) = ("A" :> 1000000) @@ ("B" :> 1500000) @@ ("C" :> 500000)

\* C5 (as amended): with valid columns, a table with no rows, or with no
\* surviving row, ends in the warning and an early return: no dataset is
\* built, the renderer is not called, and nothing is raised.
C5_EmptyIsWarningWithoutDataset ==
    (HasRun /\ ValidSel(sel) /\ Survivors = <<>>) => out[1] = Outcome("warning", <<>>)

\* C5 as stated: an empty dataset is built and handed to the renderer.
C5_EmptyIsRenderedEmptyDataset ==
    (HasRun /\ ValidSel(sel) /\ Survivors = <<>>) =>
        /\ out[1].status = "rendered"
        /\ out[1].dataset = << [nodes |-> <<>>, links |-> <<>>] >>

\* a run on the table with zero rows
C5_Witness == HasRun /\ ValidSel(sel) /\ data = <<>> /\ out[1].status = "warning"

\* C6: a column identifier missing from the table ends in the user-facing
\* error message and no dataset, whichever of the three it is.
C6_MissingColumnIsReported ==
    (HasRun /\ ~ValidSel(sel)) => out[1] = Outcome("error", <<>>)

\* C7 (as amended): two runs on the same table and columns end in the same
\* status, with the same total for every node name and the same links in the
\* same order once indices are resolved to names; the table is not changed
\* by a run.
C7_RunsAgreeUpToNodeOrder ==
    /\ [](( out # <<>> /\ prev # <<>> ) =>
            /\ out[1].status = prev[1].status
            /\ Len(out[1].dataset) = Len(prev[1].dataset)
            /\ Rendered =>
                 /\ TotalsOf(DS) = TotalsOf(prev[1].dataset[1])
                 /\ NamedLinks(DS) = NamedLinks(prev[1].dataset[1]))
    /\ [][data' = data]_vars

\* C7 as stated: the two runs give identical outcomes, node order and link
\* indices included.
C7_RunsIdentical == (out # <<>> /\ prev # <<>>) => out = prev

\* two rendered runs that enumerated the node set differently
C7_Witness ==
    /\ Rendered
    /\ prev # <<>>
    /\ out # prev

\* C8 (as amended): the sum of the node totals is twice the sum of the link
\* values when every link value is a multiple of 0.001, and otherwise is
\* within 0.0005 per node of it.
C8_TotalsTwiceLinksUpToRounding ==
    Rendered =>
        /\ Abs(SumTotals(DS) - 2 * SumLinks(DS)) <= 5 * Len(DS.nodes)
        /\ (\A i \in DOMAIN DS.links : DS.links[i].value % 10 = 0)
              => SumTotals(DS) = 2 * SumLinks(DS)

\* C8 as stated: the sum of the node totals is exactly twice the sum of the
\* link values.
C8_TotalsTwiceLinks == Rendered => SumTotals(DS) = 2 * SumLinks(DS)

\* two links of whole thousandths that share a node
C8_Witness ==
    /\ Rendered
    /\ Len(DS.links) = 2
    /\ Len(DS.nodes) = 3
    /\ \A i \in DOMAIN DS.links : DS.links[i].value % 10 = 0

\* C9: one link per surviving row, in row order, with in-range 0-based
\* indices naming that row's source and target and with the row's value; no
\* node name twice; every node an endpoint of some link.
C9_LinksFollowSurvivingRows ==
    Rendered =>
        /\ Len(DS.links) = Len(Survivors)
        /\ \A i \in DOMAIN DS.links :
             /\ DS.links[i].source \in 0..(Len(DS.nodes) - 1)
             /\ DS.links[i].target \in 0..(Len(DS.nodes) - 1)
             /\ NameAt(DS, DS.links[i].source) = <<Survivors[i][sel.source_col]>>
             /\ NameAt(DS, DS.links[i].target) = <<Survivors[i][sel.target_col]>>
             /\ DS.links[i].value = CellValue(Survivors[i][sel.value_col])
        /\ \A i, j \in DOMAIN DS.nodes : i # j => DS.nodes[i].name # DS.nodes[j].name
        /\ \A i \in DOMAIN DS.nodes :
             \E k \in DOMAIN DS.links :
                 DS.links[k].source = i - 1 \/ DS.links[k].target = i - 1

\* a dataset of two links in a table that also holds a dropped row
C9_Witness ==
    /\ Rendered
    /\ Len(DS.links) = 2
    /\ Len(data) > 2

(***************************************************************************)
(* Properties of the classifier                                            *)
(***************************************************************************)
HasPicked == picked.status # "none"

\* the class of a label, from its text alone
TimeValued(label) == ParsesAsDate(label) \/ startswith(upper(label), <<"F", "Y">>)

\* C4: every Time-Valued label is a value of the mapping and not in the
\* categorical list, every Categorical label is in the categorical list and
\* not a value of the mapping.
C4_PartitionByLabel ==
    HasPicked =>
        \A i \in DOMAIN columns :
            IF TimeValued(columns[i])
            THEN /\ columns[i] \in DictValues(picked.month_map)
                 /\ columns[i] \notin Range(picked.other_cols)
            ELSE /\ columns[i] \in Range(picked.other_cols)
                 /\ columns[i] \notin DictValues(picked.month_map)

\* the display form of a label that parses as a date
DisplayForm(label) == strftime(to_datetime(label))

\* columns i < j hold two date labels of one display form
Collide(i, j) ==
    /\ i \in DOMAIN columns /\ j \in DOMAIN columns /\ i < j
    /\ ParsesAsDate(columns[i]) /\ ParsesAsDate(columns[j])
    /\ DisplayForm(columns[i]) = DisplayForm(columns[j])

Count(seq, x) == Cardinality({k \in DOMAIN seq : seq[k] = x})

\* C10: when two date labels share a display form, the mapping holds one
\* entry for that form, whose real label is the later of the two; the
\* display list holds the form once; choosing the form resolves the value
\* column to the later label.
C10_LaterLabelWins ==
    HasPicked =>
        \A i, j \in DOMAIN columns :
            Collide(i, j) =>
                LET d == DisplayForm(columns[j])
                IN  /\ Count(DictKeys(picked.month_map), d) = 1
                    /\ DictGet(picked.month_map, d) = columns[j]
                    /\ Count(picked.time_cols, d) = 1
                    /\ (picked.status = "ok" /\ picked.display_value_col = d)
                          => picked.value_col = columns[j]

\* the colliding display form was chosen in the value box
C10_Witness ==
    /\ picked.status = "ok"
    /\ \E i, j \in DOMAIN columns :
          Collide(i, j) /\ picked.display_value_col = DisplayForm(columns[j])

=============================================================================
